---- MODULE Spec2Model ----
(***************************************************************************)
(* Heterogeneous R-GCN of data/ACM/5_hetero.ipynb: the HeteroRGCNLayer     *)
(* pass (per-relation linear transform, copy_u / mean message passing,     *)
(* sum across relations), the two-layer HeteroRGCN model, and the label    *)
(* preparation of the ACM node-classification task.                        *)
(*                                                                         *)
(* Tensors hold exact rationals <<numerator, denominator>> in lowest       *)
(* terms; a tensor of shape (n, d) is a sequence of n rows of d entries,   *)
(* node v being row v + 1.                                                 *)
(***************************************************************************)
EXTENDS Integers, Sequences, FiniteSets, TLC

VARIABLES
    G,          \* the heterograph: ntypes, num_nodes, canonical_etypes, edges
    data,       \* G.nodes[ntype].data: ntype -> (feature name -> tensor)
    weight,     \* layer number -> HeteroRGCNLayer.weight (etype -> Linear)
    embed,      \* HeteroRGCN.embed, or the feat_dict the caller hands a layer
    mode,       \* "layer": the caller runs one layer; "model": HeteroRGCN
    tstar,      \* the node type whose logits the caller wants
    pc,         \* position in the forward pass
    layer,      \* which layer is running: 1 = layer1, 2 = layer2
    idx,        \* position of the loop over G.canonical_etypes
    feat_dict,  \* HeteroRGCNLayer.forward's feat_dict argument
    funcs,      \* HeteroRGCNLayer.forward's funcs dictionary (insertion order)
    out,        \* what the running layer returned
    h_dict,     \* HeteroRGCN.forward's h_dict
    h1,         \* what layer1 returned in the running model pass
    npass,      \* forward passes ended so far
    results,    \* the outcome of each ended pass, in order
    cross,      \* cross_reducer of a direct multi_update_all call
    pvc,        \* PvsC: paper -> set of conference columns with an entry
    labels,     \* the labels vector
    pid,        \* p_selected.row
    train_idx, val_idx, test_idx,
    epoch,      \* the training loop's epoch
    params,     \* model.parameters(): how many optimizer steps they have taken
    logits,     \* logits = model(G)
    pred,       \* pred = logits.argmax(1)
    train_acc, val_acc, test_acc,
    best_val_acc, best_test_acc,
    history     \* what every epoch so far measured and kept

\* the state of the training loop
training == <<epoch, params, logits, pred, train_acc, val_acc, test_acc,
              best_val_acc, best_test_acc, history>>

vars == <<G, data, weight, embed, mode, tstar, pc, layer, idx, feat_dict,
          funcs, out, h_dict, h1, npass, results, cross, pvc, labels, pid,
          train_idx, val_idx, test_idx, training>>

---------------------------------------------------------------------------
(* Bounds of the model. *)

\* longest edge list drawn for a relation of the generated graphs
MaxEdges == 2
\* forward passes run one after the other on the same graph
MaxPasses == 2
\* papers of the label preparation
NumPapers == 3

---------------------------------------------------------------------------
(* Exact arithmetic. *)

Abs(x) == IF x < 0 THEN -x ELSE x

RECURSIVE GCD(_, _)
GCD(a, b) == IF b = 0 THEN a ELSE GCD(b, a % b)

\* the fraction p[1] / p[2] in lowest terms, the denominator positive
Lowest[p \in Int \X Int] ==
    LET g == GCD(Abs(p[1]), Abs(p[2]))
        s == IF p[2] < 0 THEN -1 ELSE 1
    IN  <<(s * p[1]) \div g, (s * p[2]) \div g>>

Rat(n, d) == Lowest[<<n, d>>]

R(n) == <<n, 1>>
RZero == R(0)

Fractions == Int \X Int
RSum[p \in Fractions \X Fractions] ==
    Rat(p[1][1] * p[2][2] + p[2][1] * p[1][2], p[1][2] * p[2][2])
RProduct[p \in Fractions \X Fractions] ==
    Rat(p[1][1] * p[2][1], p[1][2] * p[2][2])

RAdd(a, b) == RSum[<<a, b>>]
RMul(a, b) == RProduct[<<a, b>>]
RDivInt(a, k) == Rat(a[1], a[2] * k)
RLess(a, b) == a[1] * b[2] < b[1] * a[2]
RMax(a, b) == IF RLess(a, b) THEN b ELSE a
RMin(a, b) == IF RLess(a, b) THEN a ELSE b

IntVec(v) == [j \in DOMAIN v |-> R(v[j])]
IntMat(m) == [k \in DOMAIN m |-> IntVec(m[k])]

VZero(d) == [j \in 1..d |-> RZero]
VAdd(x, y) == [j \in DOMAIN x |-> RAdd(x[j], y[j])]
VDivInt(x, k) == [j \in DOMAIN x |-> RDivInt(x[j], k)]
VMax(x, y) == [j \in DOMAIN x |-> RMax(x[j], y[j])]
VMin(x, y) == [j \in DOMAIN x |-> RMin(x[j], y[j])]

RECURSIVE VSum(_, _)
\* the sum of the vectors of sequence vs, each of width d
VSum(vs, d) == IF vs = <<>> THEN VZero(d) ELSE VAdd(Head(vs), VSum(Tail(vs), d))

RECURSIVE Dot(_, _)
Dot(x, y) == IF x = <<>> THEN RZero
             ELSE RAdd(RMul(Head(x), Head(y)), Dot(Tail(x), Tail(y)))

Width(M) == IF M = <<>> THEN 0 ELSE Len(M[1])

---------------------------------------------------------------------------
(* torch: nn.Linear and F.leaky_relu. *)

\* nn.Linear: y = x W^T + b, W of shape (out_size, in_size)
Linear(lin, X) ==
    [k \in DOMAIN X |->
        [j \in DOMAIN lin.W |-> RAdd(Dot(X[k], lin.W[j]), lin.b[j])]]

\* F.leaky_relu, negative slope 0.01
NegativeSlope == 100
LeakyRelu(X) ==
    [k \in DOMAIN X |->
        [j \in DOMAIN X[k] |->
            IF X[k][j][1] < 0 THEN RDivInt(X[k][j], NegativeSlope)
            ELSE X[k][j]]]

---------------------------------------------------------------------------
(* dgl: the heterograph and its feature store. *)

Range(s) == {s[k] : k \in DOMAIN s}

\* G.etypes: the relation name of every canonical edge type, in order
Etypes(g) == [k \in DOMAIN g.canonical_etypes |-> g.canonical_etypes[k][2]]

\* the node types that are the destination of a canonical edge type
DstTypes(g) == {g.canonical_etypes[k][3] : k \in DOMAIN g.canonical_etypes}

\* the node types one canonical edge type of g leads to from a type of S
MetaSucc(g, S) ==
    {g.canonical_etypes[k][3] :
        k \in {j \in DOMAIN g.canonical_etypes : g.canonical_etypes[j][1] \in S}}

RECURSIVE MetaReach(_, _, _)
\* the node types reached from S along at most n more canonical edge types
MetaReach(g, S, n) ==
    IF n = 0 THEN S ELSE MetaReach(g, S \cup MetaSucc(g, S), n - 1)

\* the metagraph of g has a cycle or a self-loop
MetagraphCyclic(g) ==
    \E t \in Range(g.ntypes) : t \in MetaReach(g, MetaSucc(g, {t}), Len(g.ntypes))

\* G.nodes[ntype].data[name] = M
SetData(d, ntype, name, M) ==
    [d EXCEPT ![ntype] =
        [n \in DOMAIN @ \cup {name} |-> IF n = name THEN M ELSE @[n]]]

\* a dictionary kept as a sequence of entries: d[key] = entry replaces the
\* value of an existing key in place and appends a new key at the end
DictSet(d, entry) ==
    IF \E k \in DOMAIN d : d[k].key = entry.key
    THEN [k \in DOMAIN d |-> IF d[k].key = entry.key THEN entry ELSE d[k]]
    ELSE Append(d, entry)

EmptyData(g) == [t \in Range(g.ntypes) |-> [n \in {} |-> <<>>]]

---------------------------------------------------------------------------
(* dgl: message passing.  fn.copy_u(u, 'm') sends the source node's feature *)
(* u along every edge, fn.mean('m', out) averages what arrives at a        *)
(* destination node, and multi_update_all merges, per destination type,    *)
(* the aggregates of the relations of funcs with the cross reducer.        *)

\* the canonical edge types a relation name stands for
EtypeIds(g, key) ==
    {k \in DOMAIN g.canonical_etypes : g.canonical_etypes[k][2] = key}

\* the edges of canonical edge type k that arrive at node v, parallel ones each
InEdges(g, k, v) == SelectSeq(g.edges[k], LAMBDA e : e[2] = v)

\* copy_u + mean over canonical edge type k: a node no edge arrives at gets zero
MeanReduce(g, k, X) ==
    [r \in 1..g.num_nodes[g.canonical_etypes[k][3]] |->
        LET es == InEdges(g, k, r - 1)
            msgs == [e \in DOMAIN es |-> X[es[e][1] + 1]]
        IN  IF es = <<>> THEN VZero(Width(X))
            ELSE VDivInt(VSum(msgs, Width(X)), Len(es))]

RECURSIVE VMaxAll(_)
VMaxAll(vs) == IF Len(vs) = 1 THEN vs[1] ELSE VMax(Head(vs), VMaxAll(Tail(vs)))

RECURSIVE VMinAll(_)
VMinAll(vs) == IF Len(vs) = 1 THEN vs[1] ELSE VMin(Head(vs), VMinAll(Tail(vs)))

\* a faulty variant: the relations are merged last to first, and the mean is taken over
\* one relation too many
CrossReduceMisordered(reducer, flist) ==
    [r \in DOMAIN flist[1] |->
        LET vs == [f \in DOMAIN flist |-> flist[Len(flist) + 1 - f][r]]
            w == Len(vs[1])
        IN  CASE reducer = "sum" -> VSum(vs, w)
              [] reducer = "mean" -> VDivInt(VSum(vs, w), Len(vs) + 1)
              [] reducer = "max" -> VMaxAll(vs)
              [] reducer = "min" -> VMinAll(vs)
              [] reducer = "stack" -> vs]

\* the cross reducer over flist, the aggregates of one destination type
CrossReduce(reducer, flist) ==
    [r \in DOMAIN flist[1] |->
        LET vs == [f \in DOMAIN flist |-> flist[f][r]]
            w == Len(vs[1])
        IN  CASE reducer = "sum" -> VSum(vs, w)
              [] reducer = "mean" -> VDivInt(VSum(vs, w), Len(vs))
              [] reducer = "max" -> VMaxAll(vs)
              [] reducer = "min" -> VMinAll(vs)
              [] reducer = "stack" -> vs]

\* G.multi_update_all(funcs, cross_reducer): [err, data], data being the
\* feature store afterwards (unchanged when the call fails)
MultiUpdateAll(g, d, fs, reducer) ==
    LET unresolved == {k \in DOMAIN fs : Cardinality(EtypeIds(g, fs[k].key)) # 1}
    IN
    IF unresolved # {}
    THEN [err |-> IF \E k \in unresolved : EtypeIds(g, fs[k].key) # {}
                  THEN "AmbiguousRelation" ELSE "UnknownRelation",
          data |-> d]
    ELSE
    LET eid == [k \in DOMAIN fs |-> CHOOSE e \in EtypeIds(g, fs[k].key) : TRUE]
        src == [k \in DOMAIN fs |-> g.canonical_etypes[eid[k]][1]]
        dst == [k \in DOMAIN fs |-> g.canonical_etypes[eid[k]][3]]
    IN
    IF \E k \in DOMAIN fs : fs[k].u \notin DOMAIN d[src[k]]
    THEN [err |-> "MissingFeature", data |-> d]
    ELSE
    LET agg == [k \in DOMAIN fs |-> MeanReduce(g, eid[k], d[src[k]][fs[k].u])]
        order == [k \in DOMAIN fs |-> k]
        of(t) == SelectSeq(order, LAMBDA k : dst[k] = t)
        merged(t) == CrossReduce(reducer, [j \in DOMAIN of(t) |-> agg[of(t)[j]]])
        name(t) == fs[of(t)[1]].out
    IN  [err |-> "none",
         data |-> [t \in DOMAIN d |->
                     IF t \in Range(dst)
                     THEN [n \in DOMAIN d[t] \cup {name(t)} |->
                             IF n = name(t) THEN merged(t) ELSE d[t][n]]
                     ELSE d[t]]]

---------------------------------------------------------------------------
(* HeteroRGCNLayer.forward, one action per step. *)

Failed(kind, stage) == [ok |-> FALSE, err |-> kind, at |-> stage, value |-> <<>>]
Returned(v) == [ok |-> TRUE, err |-> "none", at |-> "return", value |-> v]

\* an exception leaves the pass: the caller sees the failure
Raise(kind, stage) ==
    /\ results' = Append(results, Failed(kind, stage))
    /\ npass' = npass + 1
    /\ pc' = "idle"

\* a faulty variant: the transformed source features are kept under 'h'
WhNameH(etype) == "h"

\* 'Wh_%s' % etype
WhName(etype) == "Wh_" \o etype

\* a faulty variant: every relation is filed under the first relation's name
FuncsKeyFirst(c) == G.canonical_etypes[1][2]

\* the key under which the loop files the relation's functions in funcs
FuncsKey(c) == c[2]

\* a faulty variant: every relation is transformed with the first relation's Linear
WeightOfFirst(c) == weight[layer][G.canonical_etypes[1][2]]

\* the Linear module applied to the features of the relation's source type
WeightOf(c) == weight[layer][c[2]]

\* a faulty variant: the features are taken from the 'h' an earlier pass left in the store
SourceFeatureStale(c) ==
    IF "h" \in DOMAIN data[c[1]] /\ Width(data[c[1]]["h"]) = Width(feat_dict[c[1]])
    THEN data[c[1]]["h"] ELSE feat_dict[c[1]]

\* feat_dict[srctype]: the features the relation's Linear is applied to
SourceFeature(c) == feat_dict[c[1]]

\* a faulty variant: a self-connection adds the node's own transformed input to 'h'
ReturnedFeatureSelfLoop(t) ==
    IF t \in DOMAIN feat_dict
    THEN LET own == Linear(weight[layer][G.canonical_etypes[1][2]], feat_dict[t])
         IN  [k \in DOMAIN data[t]["h"] |-> VAdd(data[t]["h"][k], own[k])]
    ELSE data[t]["h"]

\* G.nodes[ntype].data['h']: what forward returns for a node type
ReturnedFeature(t) == data[t]["h"]

\* (fn.copy_u('Wh_%s' % etype, 'm'), fn.mean('m', 'h'))
FuncsEntry(c) == [key |-> FuncsKey(c), u |-> WhName(c[2]), m |-> "m", out |-> "h"]

\* a faulty variant: the relations are averaged instead of summed
LayerReducerMean == "mean"

\* the cross reducer forward hands to multi_update_all
LayerReducer == "sum"

\* the node types forward's result has an entry for
ReturnTypes(g) == Range(g.ntypes)

\* the caller runs HeteroRGCNLayer.forward(G, feat_dict)
CallLayer ==
    /\ pc = "idle" /\ mode = "layer" /\ npass < MaxPasses
    /\ layer' = 1
    /\ feat_dict' = embed
    /\ funcs' = <<>>
    /\ idx' = 1
    /\ pc' = "loop"
    /\ UNCHANGED <<G, data, weight, embed, mode, tstar, out, h_dict, h1, npass,
                   results, cross, pvc, labels, pid, train_idx, val_idx, test_idx>>
    /\ UNCHANGED training

\* a faulty variant: a relation whose source type has no features is skipped
LoopStepSkipping ==
    /\ pc = "loop" /\ idx <= Len(G.canonical_etypes)
    /\ LET c == G.canonical_etypes[idx]
       IN  IF c[1] \notin DOMAIN feat_dict
           THEN /\ idx' = idx + 1
                /\ UNCHANGED <<data, funcs, pc, npass, results>>
           ELSE /\ data' = SetData(data, c[1], WhName(c[2]),
                                   Linear(WeightOf(c), SourceFeature(c)))
                /\ funcs' = DictSet(funcs, FuncsEntry(c))
                /\ idx' = idx + 1
                /\ UNCHANGED <<pc, npass, results>>
    /\ UNCHANGED <<G, weight, embed, mode, tstar, layer, feat_dict, out, h_dict,
                   h1, cross, pvc, labels, pid, train_idx, val_idx, test_idx>>
    /\ UNCHANGED training

\* one iteration of `for srctype, etype, dsttype in G.canonical_etypes`
LoopStep ==
    /\ pc = "loop" /\ idx <= Len(G.canonical_etypes)
    /\ LET c == G.canonical_etypes[idx]
       IN  IF c[1] \notin DOMAIN feat_dict
           THEN /\ Raise("KeyError", "funcs")
                /\ UNCHANGED <<data, funcs, idx>>
           ELSE /\ data' = SetData(data, c[1], WhName(c[2]),
                                   Linear(WeightOf(c), SourceFeature(c)))
                /\ funcs' = DictSet(funcs, FuncsEntry(c))
                /\ idx' = idx + 1
                /\ UNCHANGED <<pc, npass, results>>
    /\ UNCHANGED <<G, weight, embed, mode, tstar, layer, feat_dict, out, h_dict,
                   h1, cross, pvc, labels, pid, train_idx, val_idx, test_idx>>
    /\ UNCHANGED training

\* G.multi_update_all(funcs, 'sum')
TriggerMessagePassing ==
    /\ pc = "loop" /\ idx > Len(G.canonical_etypes)
    /\ LET r == MultiUpdateAll(G, data, funcs, LayerReducer)
       IN  IF r.err # "none"
           THEN /\ Raise(r.err, "multi_update_all")
                /\ UNCHANGED data
           ELSE /\ data' = r.data
                /\ pc' = "ret"
                /\ UNCHANGED <<npass, results>>
    /\ UNCHANGED <<G, weight, embed, mode, tstar, layer, idx, feat_dict, funcs,
                   out, h_dict, h1, cross, pvc, labels, pid, train_idx, val_idx,
                   test_idx>>
    /\ UNCHANGED training

\* return {ntype : G.nodes[ntype].data['h'] for ntype in G.ntypes}
LayerReturn ==
    /\ pc = "ret"
    /\ IF \E t \in ReturnTypes(G) : "h" \notin DOMAIN data[t]
       THEN /\ Raise("KeyError", "return")
            /\ UNCHANGED <<out, h1>>
       ELSE LET o == [t \in ReturnTypes(G) |-> ReturnedFeature(t)]
            IN  /\ out' = o
                /\ IF mode = "layer"
                   THEN /\ results' = Append(results, Returned(o))
                        /\ npass' = npass + 1
                        /\ pc' = "idle"
                        /\ UNCHANGED h1
                   ELSE /\ pc' = IF layer = 1 THEN "act" ELSE "mret"
                        /\ h1' = IF layer = 1 THEN o ELSE h1
                        /\ UNCHANGED <<npass, results>>
    /\ UNCHANGED <<G, data, weight, embed, mode, tstar, layer, idx, feat_dict,
                   funcs, h_dict, cross, pvc, labels, pid, train_idx, val_idx,
                   test_idx>>
    /\ UNCHANGED training

---------------------------------------------------------------------------
(* HeteroRGCN.forward. *)

\* the node type whose logits forward returns
OutputType == "paper"

\* h_dict = self.layer1(G, self.embed)
CallLayer1 ==
    /\ pc = "idle" /\ mode = "model" /\ npass < MaxPasses
    /\ layer' = 1
    /\ feat_dict' = embed
    /\ funcs' = <<>>
    /\ idx' = 1
    /\ pc' = "loop"
    /\ UNCHANGED <<G, data, weight, embed, mode, tstar, out, h_dict, h1, npass,
                   results, cross, pvc, labels, pid, train_idx, val_idx, test_idx>>
    /\ UNCHANGED training

\* a faulty variant: the activation is left out
ActivationSkipped(h) == h

\* the activation applied to one tensor of layer1's result
Activation(h) == LeakyRelu(h)

\* h_dict = {k : F.leaky_relu(h) for k, h in h_dict.items()}
Activate ==
    /\ pc = "act"
    /\ h_dict' = [k \in DOMAIN out |-> Activation(out[k])]
    /\ pc' = "l2"
    /\ UNCHANGED <<G, data, weight, embed, mode, tstar, layer, idx, feat_dict,
                   funcs, out, h1, npass, results, cross, pvc, labels, pid,
                   train_idx, val_idx, test_idx>>
    /\ UNCHANGED training

\* h_dict = self.layer2(G, h_dict)
CallLayer2 ==
    /\ pc = "l2"
    /\ layer' = 2
    /\ feat_dict' = h_dict
    /\ funcs' = <<>>
    /\ idx' = 1
    /\ pc' = "loop"
    /\ UNCHANGED <<G, data, weight, embed, mode, tstar, out, h_dict, h1, npass,
                   results, cross, pvc, labels, pid, train_idx, val_idx, test_idx>>
    /\ UNCHANGED training

\* return h_dict['paper']
ModelReturn ==
    /\ pc = "mret"
    /\ h_dict' = out
    /\ IF OutputType \notin DOMAIN out
       THEN Raise("KeyError", "model return")
       ELSE /\ results' = Append(results, Returned(out[OutputType]))
            /\ npass' = npass + 1
            /\ pc' = "idle"
    /\ UNCHANGED <<G, data, weight, embed, mode, tstar, layer, idx, feat_dict,
                   funcs, out, h1, cross, pvc, labels, pid, train_idx, val_idx,
                   test_idx>>
    /\ UNCHANGED training


---------------------------------------------------------------------------
(* The graphs, parameters and inputs the passes are run on. *)

Lin1(w, b) == [W |-> IntMat(<< <<w>> >>), b |-> IntVec(<<b>>)]
\* Linear modules of one input and one output feature
LinD1 == {Lin1(1, 0), Lin1(2, 1), Lin1(-1, 0)}
\* Linear modules of two input and two output features; the first is the identity
Identity2 == [W |-> IntMat(<< <<1, 0>>, <<0, 1>> >>), b |-> IntVec(<<0, 0>>)]
LinD2 == {Identity2, [W |-> IntMat(<< <<0, 1>>, <<2, 0>> >>), b |-> IntVec(<<1, 0>>)]}

\* ratings: the user-movie graph
Ratings ==
    [ntypes |-> <<"movie", "user">>,
     num_nodes |-> [user |-> 3, movie |-> 2],
     canonical_etypes |-> << <<"user", "+1", "movie">>, <<"user", "-1", "movie">> >>,
     edges |-> << << <<0, 0>>, <<0, 1>>, <<1, 0>> >>, << <<2, 1>> >> >>]

\* three papers and one citation
Citation ==
    [ntypes |-> <<"paper">>,
     num_nodes |-> [paper |-> 3],
     canonical_etypes |-> << <<"paper", "citing", "paper">> >>,
     edges |-> << << <<0, 1>> >> >>]

\* one relation name over two canonical edge types with the same source type
Follows ==
    [ntypes |-> <<"topic", "user">>,
     num_nodes |-> [topic |-> 1, user |-> 2],
     canonical_etypes |-> << <<"user", "follows", "user">>,
                             <<"user", "follows", "topic">> >>,
     edges |-> << << <<0, 1>> >>, << <<1, 0>> >> >>]

\* one relation name over two canonical edge types with different source types
Likes ==
    [ntypes |-> <<"item", "user">>,
     num_nodes |-> [item |-> 1, user |-> 2],
     canonical_etypes |-> << <<"user", "likes", "item">>,
                             <<"item", "likes", "user">> >>,
     edges |-> << << <<0, 0>>, <<1, 0>> >>, << <<0, 1>> >> >>]

\* a homogeneous graph with no node type 'paper'
Friends ==
    [ntypes |-> <<"user">>,
     num_nodes |-> [user |-> 2],
     canonical_etypes |-> << <<"user", "friend", "user">> >>,
     edges |-> << << <<0, 1>>, <<1, 0>>, <<1, 1>> >> >>]

\* users review movies: 'user' is the destination of no relation
Reviews ==
    [ntypes |-> <<"movie", "user">>,
     num_nodes |-> [movie |-> 2, user |-> 2],
     canonical_etypes |-> << <<"user", "reviews", "movie">> >>,
     edges |-> << << <<0, 0>>, <<1, 0>> >> >>]

\* the transpose of a relation's adjacency: every edge reversed
Transpose(es) == [k \in DOMAIN es |-> <<es[k][2], es[k][1]>>]

\* every edge list of at most n edges from ns source to nd destination nodes
EdgeLists(ns, nd, n) ==
    UNION {[1..k -> (0..ns - 1) \X (0..nd - 1)] : k \in 0..n}

\* two papers and one author: authorship both ways and citations
Authorship(pa, pp) ==
    [ntypes |-> <<"author", "paper">>,
     num_nodes |-> [author |-> 1, paper |-> 2],
     canonical_etypes |-> << <<"paper", "written-by", "author">>,
                             <<"author", "writing", "paper">>,
                             <<"paper", "citing", "paper">> >>,
     edges |-> <<pa, Transpose(pa), pp>>]

\* the ACM graph (G of the notebook) over two papers, two authors, one subject
ACM(pa, pp, pl) ==
    [ntypes |-> <<"author", "paper", "subject">>,
     num_nodes |-> [author |-> 2, paper |-> 2, subject |-> 1],
     canonical_etypes |-> << <<"paper", "written-by", "author">>,
                             <<"author", "writing", "paper">>,
                             <<"paper", "citing", "paper">>,
                             <<"paper", "cited", "paper">>,
                             <<"paper", "is-about", "subject">>,
                             <<"subject", "has", "paper">> >>,
     edges |-> <<pa, Transpose(pa), pp, Transpose(pp), pl, Transpose(pl)>>]

\* a layer's weight dictionary giving every relation name of g the Linear lin
Uniform(g, lin) == [r \in Range(Etypes(g)) |-> lin]

\* the feature dictionaries a caller may hand a layer over g, each of the
\* given types present or absent
Feats(full, optional) ==
    {[t \in (DOMAIN full) \ drop |-> full[t]] : drop \in SUBSET optional}

LayerRun(g, w, e) ==
    [G |-> g, mode |-> "layer", weight |-> <<w>>, embed |-> e, tstar |-> "none",
     data |-> EmptyData(g)]

ModelRun(g, w1, w2, e, t) ==
    [G |-> g, mode |-> "model", weight |-> <<w1, w2>>, embed |-> e, tstar |-> t,
     data |-> EmptyData(g)]

FeatUser == IntMat(<< <<1, 0>>, <<0, 1>>, <<1, 1>> >>)
FeatMovie == IntMat(<< <<3, 1>>, <<0, 2>> >>)
FeatPaper3 == IntMat(<< <<1>>, <<2>>, <<3>> >>)

RatingsRuns ==
    {LayerRun(Ratings, w, e) :
        w \in [{"+1", "-1"} -> LinD2],
        e \in Feats([user |-> FeatUser, movie |-> FeatMovie], {"movie"})}

CitationRuns ==
    {LayerRun(Citation, Uniform(Citation, lin), [paper |-> FeatPaper3]) : lin \in LinD1}
    \cup {ModelRun(Citation, Uniform(Citation, l1), Uniform(Citation, l2),
                   [paper |-> FeatPaper3], "paper") : l1 \in LinD1, l2 \in LinD1}

SharedNameRuns ==
    {LayerRun(Follows, Uniform(Follows, lin),
              [user |-> IntMat(<< <<1>>, <<2>> >>), topic |-> IntMat(<< <<5>> >>)]) :
        lin \in LinD1}
    \cup {LayerRun(Likes, Uniform(Likes, lin),
                   [user |-> IntMat(<< <<1>>, <<2>> >>), item |-> IntMat(<< <<5>> >>)]) :
            lin \in LinD1}

FriendsRuns ==
    {ModelRun(Friends, Uniform(Friends, l1), Uniform(Friends, l2),
              [user |-> IntMat(<< <<1>>, <<-2>> >>)], "user") : l1 \in LinD1, l2 \in LinD1}
    \cup {LayerRun(Friends, Uniform(Friends, lin), e) :
            lin \in LinD1, e \in Feats([user |-> IntMat(<< <<1>>, <<-2>> >>)], {"user"})}

\* the feature stores of the review graph in which the caller has set 'h' on
\* the users, and on the movies or not, before the first pass
ReviewsStores ==
    {[movie |-> m, user |-> [h |-> IntMat(<< <<7>>, <<8>> >>)]] :
        m \in {[n \in {} |-> <<>>], [h |-> IntMat(<< <<6>>, <<6>> >>)]}}

ReviewsRuns ==
    {[LayerRun(Reviews, Uniform(Reviews, lin), [user |-> IntMat(<< <<1>>, <<3>> >>)])
        EXCEPT !.data = store] : lin \in LinD1, store \in ReviewsStores}

\* a feature store of the authorship graph in which every node type has an
\* 'h' before the first pass
AuthorshipStore ==
    [author |-> [h |-> IntMat(<< <<4>> >>)],
     paper |-> [h |-> IntMat(<< <<5>>, <<6>> >>)]]

\* weights of the authorship graph: one Linear per relation name
AuthorshipWeights ==
    {[r \in {"written-by", "writing", "citing"} |->
        CASE r = "written-by" -> a [] r = "writing" -> b [] r = "citing" -> c] :
        a \in {Lin1(1, 0)}, b \in {Lin1(1, 0), Lin1(2, 1)}, c \in {Lin1(1, 0), Lin1(-1, 2)}}

AuthorshipRuns ==
    {LayerRun(Authorship(pa, pp), w, e) :
        pa \in EdgeLists(2, 1, MaxEdges), pp \in EdgeLists(2, 2, MaxEdges),
        w \in AuthorshipWeights,
        e \in Feats([paper |-> IntMat(<< <<1>>, <<3>> >>),
                     author |-> IntMat(<< <<2>> >>)], {"author"})}

\* layer passes on an authorship graph whose store already holds 'h'
StoredRuns ==
    {[LayerRun(Authorship(<< <<0, 0>> >>, << <<0, 1>> >>), w, e)
        EXCEPT !.data = AuthorshipStore] :
        w \in AuthorshipWeights,
        e \in Feats([paper |-> IntMat(<< <<1>>, <<3>> >>),
                     author |-> IntMat(<< <<2>> >>)], {"author"})}

ACMWeights(a, b) ==
    [r \in {"written-by", "writing", "citing", "cited", "is-about", "has"} |->
        CASE r \in {"written-by", "citing", "has"} -> a [] OTHER -> b]

ACMRuns ==
    {ModelRun(ACM(pa, pp, << <<0, 0>>, <<1, 0>> >>), w1, w2,
              [paper |-> IntMat(<< <<1>>, <<-3>> >>),
               author |-> IntMat(<< <<2>>, <<-1>> >>),
               subject |-> IntMat(<< <<4>> >>)], t) :
        pa \in {<< <<0, 0>>, <<1, 0>>, <<1, 1>> >>, << <<0, 1>> >>},
        pp \in {<< <<0, 1>> >>, << <<0, 1>>, <<1, 0>>, <<1, 1>> >>},
        w1 \in {ACMWeights(Lin1(1, 0), Lin1(-1, 0)), ACMWeights(Lin1(2, -1), Lin1(1, 1))},
        w2 \in {ACMWeights(Lin1(1, 0), Lin1(1, 0)), ACMWeights(Lin1(-1, 1), Lin1(2, 0))},
        t \in {"paper", "author", "subject"}}

Runs == RatingsRuns \cup CitationRuns \cup SharedNameRuns \cup FriendsRuns
        \cup ReviewsRuns \cup AuthorshipRuns \cup StoredRuns \cup ACMRuns

---------------------------------------------------------------------------
(* The forward passes. *)

NoLabels ==
    /\ pvc = <<>> /\ labels = <<>> /\ pid = <<>>
    /\ train_idx = <<>> /\ val_idx = <<>> /\ test_idx = <<>>

\* the training loop has not been entered
NoTraining ==
    /\ epoch = 0 /\ params = 0 /\ logits = <<>> /\ pred = <<>>
    /\ train_acc = <<>> /\ val_acc = <<>> /\ test_acc = <<>>
    /\ best_val_acc = <<>> /\ best_test_acc = <<>>
    /\ history = <<>>

Init ==
    /\ \E run \in Runs :
        /\ G = run.G
        /\ mode = run.mode
        /\ weight = run.weight
        /\ embed = run.embed
        /\ tstar = run.tstar
        /\ data = run.data
    /\ pc = "idle" /\ layer = 1 /\ idx = 1
    /\ feat_dict = <<>> /\ funcs = <<>> /\ out = <<>> /\ h_dict = <<>> /\ h1 = <<>>
    /\ npass = 0 /\ results = <<>>
    /\ cross = "sum"
    /\ NoLabels
    /\ NoTraining

Next ==
    \/ CallLayer
    \/ LoopStep
    \/ TriggerMessagePassing
    \/ LayerReturn
    \/ CallLayer1
    \/ Activate
    \/ CallLayer2
    \/ ModelReturn

Spec == Init /\ [][Next]_vars

\* a step inside a forward pass: nothing suspends or yields, so a pass that
\* has been called keeps running until it returns or raises
PassStep ==
    LoopStep \/ TriggerMessagePassing \/ LayerReturn \/ Activate \/ CallLayer2
    \/ ModelReturn

\* the runs on graphs whose metagraph has a cycle or a self-loop, the
\* authorship graphs among them with the one authorship edge (0, 0)
LiveRuns ==
    {run \in Runs :
        /\ MetagraphCyclic(run.G)
        /\ Len(run.G.canonical_etypes) = 3 => run.G.edges[1] = << <<0, 0>> >>}

InitLive ==
    /\ \E run \in LiveRuns :
        /\ G = run.G
        /\ mode = run.mode
        /\ weight = run.weight
        /\ embed = run.embed
        /\ tstar = run.tstar
        /\ data = run.data
    /\ pc = "idle" /\ layer = 1 /\ idx = 1
    /\ feat_dict = <<>> /\ funcs = <<>> /\ out = <<>> /\ h_dict = <<>> /\ h1 = <<>>
    /\ npass = 0 /\ results = <<>>
    /\ cross = "sum"
    /\ NoLabels
    /\ NoTraining

SpecLive == InitLive /\ [][Next]_vars /\ WF_vars(PassStep)


---------------------------------------------------------------------------
(* What a layer pass is meant to compute, stated edge by edge. *)

RECURSIVE ArrivingSum(_, _, _, _)
\* the sum of X[u] over the edges (u, v) of edge list es, and zero for none
ArrivingSum(es, v, X, w) ==
    IF es = <<>> THEN VZero(w)
    ELSE IF Head(es)[2] = v
         THEN VAdd(X[Head(es)[1] + 1], ArrivingSum(Tail(es), v, X, w))
         ELSE ArrivingSum(Tail(es), v, X, w)

RECURSIVE ArrivingCount(_, _)
ArrivingCount(es, v) ==
    IF es = <<>> THEN 0
    ELSE (IF Head(es)[2] = v THEN 1 ELSE 0) + ArrivingCount(Tail(es), v)

\* the mean of X[u] over the edges (u, v) of canonical edge type k, zero for none
RawMean(g, k, v, X, w) ==
    LET n == ArrivingCount(g.edges[k], v)
        total == ArrivingSum(g.edges[k], v, X, w)
    IN  IF n = 0 THEN total ELSE VDivInt(total, n)

\* the mean over the edges of canonical edge type k into v of W_r(feat[s])[u]
RelationMean(g, w, feat, k, v) ==
    LET c == g.canonical_etypes[k]
    IN  RawMean(g, k, v, Linear(w[c[2]], feat[c[1]]), Len(w[c[2]].W))

RECURSIVE SumOfRelations(_, _, _, _, _, _)
\* the sum of RelationMean over the canonical edge types k.. into type d
SumOfRelations(g, w, feat, d, v, k) ==
    IF k > Len(g.canonical_etypes) THEN VZero(Len(w[g.canonical_etypes[1][2]].W))
    ELSE IF g.canonical_etypes[k][3] = d
         THEN VAdd(RelationMean(g, w, feat, k, v),
                   SumOfRelations(g, w, feat, d, v, k + 1))
         ELSE SumOfRelations(g, w, feat, d, v, k + 1)

\* the tensor a layer pass is meant to produce for destination type d
Expected(g, w, feat, d) ==
    [r \in 1..g.num_nodes[d] |-> SumOfRelations(g, w, feat, d, r - 1, 1)]

\* the canonical edge types of g into node type d
Into(g, d) == {k \in DOMAIN g.canonical_etypes : g.canonical_etypes[k][3] = d}

\* the pass that ended as results[n] was a layer pass that returned
LayerReturned(n) == n \in DOMAIN results /\ mode = "layer" /\ results[n].ok

\* the running layer has returned its dictionary to HeteroRGCN.forward
InModelAfterLayer == mode = "model" /\ pc \in {"act", "mret"}

\* C1: whenever HeteroRGCNLayer.forward has run multi_update_all, the feature
\* 'h' of every destination type d holds, for every node v, the sum over the
\* canonical edge types (s, r, d) of the mean over the edges (u, v) of
\* W_r(feat[s])[u] (parallel edges each counted, a relation with no edge into
\* v adding zero), and whenever forward returns, out[d] is that tensor.
C1_SumOfRelationMeans ==
    /\ pc = "ret" =>
         \A d \in DstTypes(G) :
            data[d]["h"] = Expected(G, weight[layer], feat_dict, d)
    /\ InModelAfterLayer =>
         \A d \in DstTypes(G) : out[d] = Expected(G, weight[layer], feat_dict, d)
    /\ \A n \in DOMAIN results :
         LayerReturned(n) =>
            \A d \in DstTypes(G) :
               results[n].value[d] = Expected(G, weight[1], embed, d)

\* a layer pass returned on a graph where two relations reach the same
\* destination type, one with parallel edges into a node and one with no
\* edge into that node
C1_Witness ==
    /\ LayerReturned(1)
    /\ \E d \in DstTypes(G) : \E v \in 0..G.num_nodes[d] - 1 :
         \E k1, k2 \in Into(G, d) :
            /\ k1 # k2
            /\ \E a, b \in DOMAIN G.edges[k1] :
                 a # b /\ G.edges[k1][a] = G.edges[k1][b] /\ G.edges[k1][a][2] = v
            /\ ArrivingCount(G.edges[k2], v) = 0
            /\ results[1].value[d][v + 1] # VZero(Len(results[1].value[d][v + 1]))


\* out_size of layer l
OutSize(l) == Len(weight[l][G.canonical_etypes[1][2]].W)

\* feat covers every node type that is a source in g
Covers(feat, g) ==
    \A k \in DOMAIN g.canonical_etypes : g.canonical_etypes[k][1] \in DOMAIN feat

\* no two canonical edge types of g have the same relation name
DistinctNames(g) ==
    \A k1, k2 \in DOMAIN g.canonical_etypes :
        g.canonical_etypes[k1][2] = g.canonical_etypes[k2][2] => k1 = k2

Half == Rat(1, 2)
ThreeHalves == Rat(3, 2)

\* scenario S1: the user-movie graph, identity weights with zero bias for both
\* relations, feat[user] = [[1,0],[0,1],[1,1]]
IsS1 ==
    /\ G = Ratings /\ mode = "layer"
    /\ weight[1] = Uniform(Ratings, Identity2)
    /\ embed["user"] = FeatUser

Isolated(g, d, v) == \A k \in Into(g, d) : ArrivingCount(g.edges[k], v) = 0

\* row is the all-zero vector of width w
IsZeroRow(row, w) == Len(row) = w /\ \A j \in DOMAIN row : row[j] = RZero

\* C3: after a layer pass every destination node with no incoming edge under
\* any canonical edge type has the all-zero vector of width out_size as its
\* feature 'h' and in the returned dictionary, whatever the bias; with
\* (paper, citing, paper), three papers, the edge (0, 1), identity W and
\* feature [[1],[2],[3]] the output is [[0],[1],[0]].
C3_IsolatedNodeIsZero ==
    /\ pc = "ret" =>
         \A d \in DstTypes(G) : \A v \in 0..G.num_nodes[d] - 1 :
            Isolated(G, d, v) => IsZeroRow(data[d]["h"][v + 1], OutSize(layer))
    /\ InModelAfterLayer =>
         \A d \in DstTypes(G) : \A v \in 0..G.num_nodes[d] - 1 :
            Isolated(G, d, v) => IsZeroRow(out[d][v + 1], OutSize(layer))
    /\ \A n \in DOMAIN results :
         LayerReturned(n) =>
            \A d \in DstTypes(G) : \A v \in 0..G.num_nodes[d] - 1 :
               Isolated(G, d, v) => IsZeroRow(results[n].value[d][v + 1], OutSize(1))
    /\ (G = Citation /\ LayerReturned(1) /\ weight[1]["citing"] = Lin1(1, 0)) =>
         results[1].value["paper"] = IntMat(<< <<0>>, <<1>>, <<0>> >>)

\* a layer pass with a non-zero bias returned on the citation graph, whose
\* papers 0 and 2 are cited by nobody
C3_Witness ==
    /\ G = Citation /\ LayerReturned(1)
    /\ weight[1]["citing"].b # IntVec(<<0>>)
    /\ Isolated(G, "paper", 0) /\ ~Isolated(G, "paper", 1)
    /\ results[1].value["paper"][2] # VZero(1)

\* C4: for every graph (here: with distinct relation names) and every feat
\* covering its source types, a layer pass returns a dictionary whose keys are
\* exactly the destination types, each value of shape (n_t, out_size).
C4_ReturnsDestinationTypes ==
    \A n \in DOMAIN results :
        (mode = "layer" /\ Covers(embed, G) /\ DistinctNames(G)) =>
            /\ results[n].ok
            /\ DOMAIN results[n].value = DstTypes(G)
            /\ \A t \in DstTypes(G) :
                 /\ Len(results[n].value[t]) = G.num_nodes[t]
                 /\ \A r \in DOMAIN results[n].value[t] :
                      Len(results[n].value[t][r]) = OutSize(1)

\* C5: when two canonical edge types share a relation name r, the source
\* features of both are transformed with the one W_r, and each of the two
\* still contributes its own aggregate to its destination type.
C5_SharedRelationName ==
    (~DistinctNames(G) /\ mode = "layer" /\ Covers(embed, G)) =>
        /\ (pc = "loop" /\ idx > Len(G.canonical_etypes)) =>
              \A k \in DOMAIN G.canonical_etypes :
                 LET c == G.canonical_etypes[k]
                 IN  data[c[1]][WhName(c[2])] = Linear(weight[1][c[2]], embed[c[1]])
        /\ npass >= 1 =>
              /\ results[1].ok
              /\ \A d \in DstTypes(G) :
                    results[1].value[d] = Expected(G, weight[1], embed, d)

\* what the two-layer model is meant to compute for node type t
ExpectedModel(t) ==
    Expected(G, weight[2],
             [k \in DstTypes(G) |-> LeakyRelu(Expected(G, weight[1], embed, k))], t)

ModelReturned(n) == n \in DOMAIN results /\ mode = "model" /\ results[n].ok

\* layer2 is running or has just returned
InLayer2 == mode = "model" /\ layer = 2 /\ pc \in {"loop", "ret", "mret"}

\* C6 (as the claim has it): HeteroRGCN.forward returns the logits of the
\* node type the caller designated, of shape (n_{t*}, out_size).
C6_DesignatedOutputType ==
    \A n \in DOMAIN results :
        ModelReturned(n) =>
            /\ results[n].value = ExpectedModel(tstar)
            /\ Len(results[n].value) = G.num_nodes[tstar]

\* C6 (amended): whenever HeteroRGCN.forward returns, it returns exactly
\* L2(G, leaky_relu(L1(G, E)))['paper'], of shape (n_paper, out_size): the
\* output type is the fixed 'paper'; and layer2 runs only on the activation
\* of every tensor layer1 returned.
C6_ReturnsPaperLogits ==
    /\ \A n \in DOMAIN results :
         ModelReturned(n) =>
            /\ results[n].value = ExpectedModel("paper")
            /\ Len(results[n].value) = G.num_nodes["paper"]
            /\ \A r \in DOMAIN results[n].value : Len(results[n].value[r]) = OutSize(2)
    /\ InLayer2 =>
         /\ DOMAIN h1 = Range(G.ntypes)
         /\ feat_dict = [k \in DOMAIN h1 |-> LeakyRelu(h1[k])]
    /\ pc \in {"act", "l2"} => layer = 1 /\ out = h1

\* the model returned on the ACM graph, a tensor of layer1 having had a
\* negative entry for the activation to scale
C6_Witness ==
    /\ ModelReturned(1)
    /\ Len(G.canonical_etypes) = 6
    /\ \E t \in DOMAIN h1 : \E r \in DOMAIN h1[t] : h1[t][r][1][1] < 0
    /\ results[1].value # ExpectedModel("author")

SameOutcome(a, b) ==
    /\ a.ok = b.ok /\ a.err = b.err /\ a.at = b.at
    /\ a.ok => a.value = b.value

\* C7: forward passes run one after the other on the same graph with the same
\* parameters and inputs end the same way and return identical outputs,
\* whatever scratch features the earlier passes left in the store.
C7_PassesAgree ==
    \A n, m \in DOMAIN results : SameOutcome(results[n], results[m])

\* two model passes returned, the second having started on a store that held
\* the 'h' and 'Wh_<relation>' features of the first
C7_Witness ==
    /\ Len(results) >= 2 /\ ModelReturned(1) /\ ModelReturned(2)
    /\ \A t \in Range(G.ntypes) : "h" \in DOMAIN data[t]
    /\ \E r \in DOMAIN results[1].value : results[1].value[r] # VZero(OutSize(2))

\* C10: when the loop of HeteroRGCNLayer.forward has ended, funcs holds one
\* entry per canonical edge type, entry k standing for canonical edge type k
\* alone, and no two canonical edge types keep their scratch feature under the
\* same name of the same node type.
C10_FuncsPerCanonicalEtype ==
    (pc = "loop" /\ idx > Len(G.canonical_etypes)) =>
        /\ Len(funcs) = Len(G.canonical_etypes)
        /\ \A k \in DOMAIN funcs : EtypeIds(G, funcs[k].key) = {k}
        /\ \A k1, k2 \in DOMAIN G.canonical_etypes :
              k1 # k2 =>
                 <<G.canonical_etypes[k1][1], WhName(G.canonical_etypes[k1][2])>>
                    # <<G.canonical_etypes[k2][1], WhName(G.canonical_etypes[k2][2])>>

\* G.multi_update_all is the step about to be taken
AtMultiUpdateAll == pc = "loop" /\ idx > Len(G.canonical_etypes)

\* the node types that are the destination of a key of funcs
FuncsDst ==
    {G.canonical_etypes[k][3] :
        k \in UNION {EtypeIds(G, funcs[j].key) : j \in DOMAIN funcs}}

\* the feature 'h' of node type t in store d, if it has one
HOf(d, t) == IF "h" \in DOMAIN d[t] THEN <<d[t]["h"]>> ELSE <<>>

\* C11: every step of a layer or model pass leaves the node types, node
\* counts, canonical edge types and edge lists of G as they were at
\* construction; multi_update_all leaves the feature 'h' of every node type
\* that is not the destination of a key of funcs as it was, and no other step
\* of a pass writes a feature 'h' at all.
C11_FrameOfAPass ==
    [][/\ G' = G
       /\ \A t \in Range(G.ntypes) :
            (~AtMultiUpdateAll \/ t \notin FuncsDst) => HOf(data', t) = HOf(data, t)]_vars

\* two layer passes have run on the review graph, in whose store the caller
\* had set 'h' on the users and on the movies: message passing has replaced
\* the 'h' of the movies and the 'h' of the users is still the caller's
C11_Witness ==
    /\ G = Reviews /\ npass = 2 /\ results[2].ok
    /\ data["user"]["h"] = IntMat(<< <<7>>, <<8>> >>)
    /\ "Wh_reviews" \in DOMAIN data["user"]
    /\ data["movie"]["h"] # IntMat(<< <<6>>, <<6>> >>)
    /\ results[2].value["movie"] = data["movie"]["h"]

\* a step of the loop of HeteroRGCNLayer.forward: the loop starts at the first
\* canonical edge type with funcs empty, every iteration handles the canonical
\* edge type at the loop's position (its source features transformed with its
\* Linear into 'Wh_<etype>', its functions filed in funcs) and moves on by
\* one, and multi_update_all runs only once the position is past the last
LoopInOrder ==
    /\ (pc # "loop" /\ pc' = "loop") => (idx' = 1 /\ funcs' = <<>>)
    /\ (pc = "loop" /\ pc' = "loop") =>
          LET c == G.canonical_etypes[idx]
          IN  /\ idx <= Len(G.canonical_etypes) /\ idx' = idx + 1
              /\ data'[c[1]][WhName(c[2])] = Linear(weight[layer][c[2]], feat_dict[c[1]])
              /\ \E j \in DOMAIN funcs' :
                    funcs'[j].key = c[2] /\ funcs'[j].u = WhName(c[2])
    /\ (pc = "loop" /\ pc' = "ret") =>
          /\ idx = Len(G.canonical_etypes) + 1
          /\ DistinctNames(G) => [k \in DOMAIN funcs |-> funcs[k].key] = Etypes(G)

\* what message passing left is one hop: 'h' of a node is made of the
\* transformed features of the sources of its incoming edges alone
OneHop ==
    pc = "ret" =>
        \A d \in DstTypes(G) : \A v \in 0..G.num_nodes[d] - 1 :
            data[d]["h"][v + 1] = SumOfRelations(G, weight[layer], feat_dict, d, v, 1)

\* C12: on a graph whose metagraph has a cycle or a self-loop, a layer pass
\* handles the canonical edge types one by one in the order of
\* G.canonical_etypes, each once, before multi_update_all runs; what the
\* message passing leaves is one hop of propagation; and every pass that has
\* been called ends, with a result or with a failure.
C12_EachEtypeOnceAndEnds ==
    /\ [][MetagraphCyclic(G) => LoopInOrder]_vars
    /\ [](MetagraphCyclic(G) => OneHop)
    /\ \A n \in 0..MaxPasses - 1 :
          (MetagraphCyclic(G) /\ pc # "idle" /\ npass = n)
             ~> (pc = "idle" /\ npass = n + 1 /\ Len(results) = n + 1)

\* the model has returned on the ACM graph, whose metagraph has the cycle
\* paper -> author -> paper and the self-loops 'citing' and 'cited', with
\* papers 0 and 1 citing each other
C12_Witness ==
    /\ Len(G.canonical_etypes) = 6 /\ MetagraphCyclic(G)
    /\ G.canonical_etypes[3] = <<"paper", "citing", "paper">>
    /\ \E a, b \in DOMAIN G.edges[3] :
          G.edges[3][a] = <<0, 1>> /\ G.edges[3][b] = <<1, 0>>
    /\ ModelReturned(1)
    /\ [k \in DOMAIN funcs |-> funcs[k].key] = Etypes(G)

\* the first canonical edge type of g whose source type has no entry in feat
FirstMissing(feat, g) ==
    CHOOSE k \in DOMAIN g.canonical_etypes :
        /\ g.canonical_etypes[k][1] \notin DOMAIN feat
        /\ \A j \in 1..k - 1 : g.canonical_etypes[j][1] \in DOMAIN feat

\* a pass is in the loop with a feat_dict that misses a source type
LoopMissing == pc = "loop" /\ ~Covers(feat_dict, G)

\* C14: a pass whose feat_dict has no entry for the source type of some
\* canonical edge type never gets past the first such edge type in the loop
\* that builds funcs, so multi_update_all is not invoked; its steps up to
\* there leave the feature 'h' of every node type as it was; at that edge
\* type the pass ends with a KeyError, returning nothing and leaving the
\* store as it is; and every pass a caller runs with such a feat_dict has
\* ended that way, with no output dictionary.
C14_MissingSourceFeatureFails ==
    /\ [](LoopMissing => idx <= FirstMissing(feat_dict, G))
    /\ [][LoopMissing =>
            /\ \A t \in Range(G.ntypes) : HOf(data', t) = HOf(data, t)
            /\ pc' \in {"loop", "idle"}
            /\ idx = FirstMissing(feat_dict, G) =>
                  /\ pc' = "idle" /\ npass' = npass + 1
                  /\ results' = Append(results, Failed("KeyError", "funcs"))
                  /\ data' = data /\ out' = out]_vars
    /\ []((mode = "layer" /\ ~Covers(embed, G)) =>
            \A n \in DOMAIN results :
               /\ ~results[n].ok /\ results[n].value = <<>>
               /\ results[n].err = "KeyError" /\ results[n].at = "funcs")

\* a pass on the authorship graph without features for 'author' has ended:
\* the first relation, whose source is 'paper', had been transformed when the
\* second failed, and the 'h' the store held before the call is still there
C14_Witness ==
    /\ mode = "layer" /\ G.ntypes = <<"author", "paper">>
    /\ "author" \notin DOMAIN embed
    /\ npass >= 1 /\ ~results[1].ok /\ results[1].at = "funcs"
    /\ "Wh_written-by" \in DOMAIN data["paper"]
    /\ HOf(data, "paper") = <<IntMat(<< <<5>>, <<6>> >>)>>
    /\ HOf(data, "author") = <<IntMat(<< <<4>> >>)>>
    /\ out = <<>>

---------------------------------------------------------------------------
(* multi_update_all called directly, with each cross reducer. *)

Reducers == {"sum", "max", "min", "mean", "stack"}

\* users rate movies '+1' or '-1'; movies are 'rated-by' users
Rated(plus, minus) ==
    [ntypes |-> <<"movie", "user">>,
     num_nodes |-> [user |-> 2, movie |-> 2],
     canonical_etypes |-> << <<"user", "+1", "movie">>, <<"user", "-1", "movie">>,
                             <<"movie", "rated-by", "user">> >>,
     edges |-> <<plus, minus, << <<0, 0>> >> >>]

\* every sequence without repetition of elements of S, the empty one left out
RECURSIVE Orderings(_)
Orderings(S) ==
    IF S = {} THEN {<<>>}
    ELSE LET shorter == UNION {Orderings(S \ {x}) : x \in S}
         IN  shorter \cup UNION {{Append(q, x) : q \in Orderings(S \ {x})} : x \in S}

\* (fn.copy_u('x', 'm'), fn.mean('m', 'h')) for relation r
DirectEntry(r) == [key |-> r, u |-> "x", m |-> "m", out |-> "h"]

InitDirect ==
    /\ \E plus \in EdgeLists(2, 2, MaxEdges) :
       \E minus \in {<< <<1, 0>> >>, << <<1, 0>>, <<0, 1>> >>} :
          G = Rated(plus, minus)
    /\ \E order \in Orderings({"+1", "-1", "rated-by"}) \ {<<>>} :
          funcs = [k \in DOMAIN order |-> DirectEntry(order[k])]
    /\ cross \in Reducers
    /\ data = [user |-> [x |-> IntMat(<< <<3>>, <<5>> >>), h |-> IntMat(<< <<9>>, <<9>> >>)],
               movie |-> [x |-> IntMat(<< <<7>>, <<1>> >>)]]
    /\ mode = "direct" /\ pc = "idle"
    /\ weight = <<>> /\ embed = <<>> /\ tstar = "none"
    /\ layer = 1 /\ idx = 1
    /\ feat_dict = <<>> /\ out = <<>> /\ h_dict = <<>> /\ h1 = <<>>
    /\ npass = 0 /\ results = <<>>
    /\ NoLabels
    /\ NoTraining

\* G.multi_update_all(funcs, cross)
DirectMultiUpdateAll ==
    /\ pc = "idle" /\ mode = "direct"
    /\ LET r == MultiUpdateAll(G, data, funcs, cross)
       IN  /\ data' = r.data
           /\ results' = Append(results, IF r.err = "none" THEN Returned(<<>>)
                                         ELSE Failed(r.err, "multi_update_all"))
    /\ npass' = npass + 1
    /\ pc' = "done"
    /\ UNCHANGED <<G, weight, embed, mode, tstar, layer, idx, feat_dict, funcs,
                   out, h_dict, h1, cross, pvc, labels, pid, train_idx, val_idx,
                   test_idx>>
    /\ UNCHANGED training

NextDirect == DirectMultiUpdateAll

SpecDirect == InitDirect /\ [][NextDirect]_vars

\* the canonical edge type entry j of funcs stands for
EntryEtype(j) == CHOOSE k \in EtypeIds(G, funcs[j].key) : TRUE

\* the positions of funcs whose relation arrives at node type d, in funcs order
EntriesInto(d) ==
    SelectSeq([j \in DOMAIN funcs |-> j],
              LAMBDA j : G.canonical_etypes[EntryEtype(j)][3] = d)

\* the aggregate that entry j of funcs delivers to node v
Delivered(j, v) ==
    LET k == EntryEtype(j)
    IN  RawMean(G, k, v, data[G.canonical_etypes[k][1]][funcs[j].u], 1)

RECURSIVE Total(_, _)
\* the sum of what the entries js deliver to node v
Total(js, v) ==
    IF js = <<>> THEN VZero(1) ELSE VAdd(Delivered(Head(js), v), Total(Tail(js), v))

\* scenario S3: '+1' delivers 3 and '-1' delivers 5 to movie 0, funcs in that order
IsS3 ==
    /\ G.edges[1] = << <<0, 0>> >> /\ G.edges[2] = << <<1, 0>> >>
    /\ Len(funcs) >= 2 /\ funcs[1].key = "+1" /\ funcs[2].key = "-1"

\* C8: after multi_update_all, for every destination type of funcs and every
\* node v of it, 'h'[v] is under 'stack' the relations' aggregates in the
\* iteration order of funcs, under 'sum' their element-wise sum and under
\* 'mean' their arithmetic mean across the relations; two relations delivering
\* 3 and 5 to node 0 give [3, 5], 8 and 4.
C8_CrossReducer ==
    (mode = "direct" /\ pc = "done") =>
        /\ results[1].ok
        /\ \A j \in DOMAIN funcs :
             LET d == G.canonical_etypes[EntryEtype(j)][3]
                 js == EntriesInto(d)
             IN  \A v \in 0..G.num_nodes[d] - 1 :
                    LET h == data[d]["h"][v + 1]
                    IN  /\ cross = "stack" =>
                              h = [i \in DOMAIN js |-> Delivered(js[i], v)]
                        /\ cross = "sum" => h = Total(js, v)
                        /\ cross = "mean" => h = VDivInt(Total(js, v), Len(js))
        /\ IsS3 =>
             /\ cross = "stack" => data["movie"]["h"][1] = <<IntVec(<<3>>), IntVec(<<5>>)>>
             /\ cross = "sum" => data["movie"]["h"][1] = IntVec(<<8>>)
             /\ cross = "mean" => data["movie"]["h"][1] = IntVec(<<4>>)

\* 'stack' merged two relations delivering different values to one node, '-1'
\* coming first in funcs although it is the later canonical edge type
C8_Witness ==
    /\ mode = "direct" /\ pc = "done" /\ cross = "stack"
    /\ Len(funcs) >= 2 /\ funcs[1].key = "-1" /\ funcs[2].key = "+1"
    /\ Len(data["movie"]["h"][1]) = 2
    /\ data["movie"]["h"][1][1] # data["movie"]["h"][1][2]

---------------------------------------------------------------------------
(* The label preparation of the node-classification task. *)

\* the conference columns papers of the model are published in
ConfColumns == {0, 1, 2, 5, 11, 13}

\* c_selected = [0, 11, 13]  # KDD, ICML, VLDB
c_selected == <<0, 11, 13>>

\* shuffle[0:800], shuffle[800:900], shuffle[900:]
TrainEnd == 800
ValEnd == 900

RECURSIVE Ascending(_)
\* the elements of a set of numbers, smallest first
Ascending(S) ==
    IF S = {} THEN <<>>
    ELSE LET lo == CHOOSE x \in S : \A y \in S : x <= y
         IN  <<lo>> \o Ascending(S \ {lo})

RECURSIVE Indices(_)
\* pvc.indices of the CSR matrix: the column indices of the entries, row by row
Indices(rows) ==
    IF rows = <<>> THEN <<>> ELSE Ascending(Head(rows)) \o Indices(Tail(rows))

RECURSIVE SelectedRows(_, _)
\* pvc[:, c_selected].tocoo().row: the row of every entry in a selected column
SelectedRows(rows, p) ==
    IF p > Len(rows) THEN <<>>
    ELSE [k \in 1..Cardinality(rows[p] \cap Range(c_selected)) |-> p - 1]
         \o SelectedRows(rows, p + 1)

\* labels[labels == old] = new
Assign(lab, old, new) == [k \in DOMAIN lab |-> IF lab[k] = old THEN new ELSE lab[k]]

\* the labels vector made from pvc.indices
MakeLabels(ind) == Assign(Assign(ind, 11, 1), 13, 2)

\* s[a:b]
Slice(s, a, b) == SubSeq(s, a + 1, IF b < Len(s) THEN b ELSE Len(s))

\* np.random.permutation(s): every reordering of s
Shuffles(s) == {[k \in DOMAIN s |-> s[f[k]]] : f \in Permutations(DOMAIN s)}

InitLabels ==
    /\ pvc \in [1..NumPapers -> {{c} : c \in ConfColumns}]
    /\ labels = <<>> /\ pid = <<>>
    /\ train_idx = <<>> /\ val_idx = <<>> /\ test_idx = <<>>
    /\ mode = "labels" /\ pc = "idle"
    /\ G = Citation /\ data = EmptyData(Citation)
    /\ weight = <<>> /\ embed = <<>> /\ tstar = "none"
    /\ layer = 1 /\ idx = 1
    /\ feat_dict = <<>> /\ funcs = <<>> /\ out = <<>> /\ h_dict = <<>> /\ h1 = <<>>
    /\ npass = 0 /\ results = <<>>
    /\ cross = "sum"
    /\ NoTraining

\* p_selected and labels
GenerateLabels ==
    /\ pc = "idle" /\ mode = "labels"
    /\ labels' = MakeLabels(Indices(pvc))
    /\ pid' = SelectedRows(pvc, 1)
    /\ pc' = "labelled"
    /\ UNCHANGED <<G, data, weight, embed, mode, tstar, layer, idx, feat_dict,
                   funcs, out, h_dict, h1, npass, results, cross, pvc,
                   train_idx, val_idx, test_idx>>
    /\ UNCHANGED training

\* generate train/val/test split
GenerateSplit ==
    /\ pc = "labelled"
    /\ \E shuffle \in Shuffles(pid) :
        /\ train_idx' = Slice(shuffle, 0, TrainEnd)
        /\ val_idx' = Slice(shuffle, TrainEnd, ValEnd)
        /\ test_idx' = Slice(shuffle, ValEnd, Len(shuffle))
    /\ pc' = "split"
    /\ UNCHANGED <<G, data, weight, embed, mode, tstar, layer, idx, feat_dict,
                   funcs, out, h_dict, h1, npass, results, cross, pvc, labels, pid>>
    /\ UNCHANGED training

NextLabels == GenerateLabels \/ GenerateSplit

SpecLabels == InitLabels /\ [][NextLabels]_vars

\* the class ID of conference column c: KDD = 0, ICML = 1, VLDB = 2
ClassOf(c) == CASE c = 0 -> 0 [] c = 11 -> 1 [] c = 13 -> 2

\* C9: labels is indexed by paper ID over all papers; every paper published
\* in KDD, ICML or VLDB (columns 0, 11, 13), and so every index of train_idx,
\* val_idx and test_idx, has its conference's class ID as label, and no paper
\* of another conference has one of the class IDs 0, 1, 2 as label.
C9_LabelsAreClassIds ==
    pc \in {"labelled", "split"} =>
        /\ Len(labels) = NumPapers
        /\ \A p \in 1..NumPapers : \A c \in pvc[p] :
             IF c \in Range(c_selected)
             THEN labels[p] = ClassOf(c)
             ELSE labels[p] \notin {0, 1, 2}
        /\ \A i \in Range(train_idx) \cup Range(val_idx) \cup Range(test_idx) :
             \E c \in pvc[i + 1] \cap Range(c_selected) : labels[i + 1] = ClassOf(c)

---------------------------------------------------------------------------
(* The training loop. *)

\* for epoch in range(100)
NumEpochs == 100
\* epochs the loop is followed for
MaxEpochs == 3

\* the rows of logits the model may produce for a paper: no two entries of a
\* row are equal, so the row's argmax is one class
LogitRows == {<<2, 0, 1>>, <<0, 1, 2>>}

\* row.argmax(): the class ID with the largest logit
ArgMax(row) ==
    CHOOSE c \in 0..Len(row) - 1 : \A j \in DOMAIN row : row[j] <= row[c + 1]

\* (p[index] == labels[index]).float().mean()
Accuracy(p, index) ==
    Rat(Cardinality({k \in DOMAIN index : p[index[k] + 1] = labels[index[k] + 1]}),
        Len(index))

InitTrain ==
    /\ labels \in {<<0, 2, 0, 2>>, <<2, 0, 2, 1>>}
    /\ pid = <<0, 1, 2, 3>>
    /\ train_idx = <<0>> /\ val_idx = <<1, 2>> /\ test_idx = <<3>>
    /\ pvc = <<>>
    /\ epoch = 0 /\ params = 0
    /\ best_val_acc = R(0) /\ best_test_acc = R(0)
    /\ logits = <<>> /\ pred = <<>>
    /\ train_acc = <<>> /\ val_acc = <<>> /\ test_acc = <<>>
    /\ history = <<>>
    /\ mode = "train" /\ pc = "epoch"
    /\ G = Citation /\ data = EmptyData(Citation)
    /\ weight = <<>> /\ embed = <<>> /\ tstar = "none"
    /\ layer = 1 /\ idx = 1
    /\ feat_dict = <<>> /\ funcs = <<>> /\ out = <<>> /\ h_dict = <<>> /\ h1 = <<>>
    /\ npass = 0 /\ results = <<>>
    /\ cross = "sum"

\* no step of the training loop touches the graph, the passes or the labels
TrainingFrame ==
    UNCHANGED <<G, data, weight, embed, mode, tstar, layer, idx, feat_dict,
                funcs, out, h_dict, h1, npass, results, cross, pvc, labels, pid,
                train_idx, val_idx, test_idx>>

\* logits = model(G): some logits, made with the parameters as they now are
Forward ==
    /\ pc = "epoch" /\ mode = "train"
    /\ epoch < NumEpochs /\ epoch < MaxEpochs
    /\ \E rows \in [DOMAIN labels -> LogitRows] :
          logits' = [params |-> params, value |-> rows]
    /\ pc' = "pred"
    /\ UNCHANGED <<epoch, params, pred, train_acc, val_acc, test_acc,
                   best_val_acc, best_test_acc, history>>
    /\ TrainingFrame

\* pred = logits.argmax(1) and the three accuracies
Evaluate ==
    /\ pc = "pred"
    /\ LET p == [k \in DOMAIN logits.value |-> ArgMax(logits.value[k])]
       IN  /\ pred' = p
           /\ train_acc' = Accuracy(p, train_idx)
           /\ val_acc' = Accuracy(p, val_idx)
           /\ test_acc' = Accuracy(p, test_idx)
    /\ pc' = "best"
    /\ UNCHANGED <<epoch, params, logits, best_val_acc, best_test_acc, history>>
    /\ TrainingFrame

\* if best_val_acc < val_acc: best_val_acc = val_acc; best_test_acc = test_acc
UpdateBest ==
    /\ pc = "best"
    /\ LET better == RLess(best_val_acc, val_acc)
           bv == IF better THEN val_acc ELSE best_val_acc
           bt == IF better THEN test_acc ELSE best_test_acc
       IN  /\ best_val_acc' = bv
           /\ best_test_acc' = bt
           /\ history' = Append(history,
                [epoch |-> epoch, logits |-> logits, pred |-> pred,
                 val_acc |-> val_acc, test_acc |-> test_acc,
                 best_val_acc |-> bv, best_test_acc |-> bt])
    /\ pc' = "opt"
    /\ UNCHANGED <<epoch, params, logits, pred, train_acc, val_acc, test_acc>>
    /\ TrainingFrame

\* opt.zero_grad(); loss.backward(); opt.step(), and on to the next epoch
OptimizerStep ==
    /\ pc = "opt"
    /\ params' = params + 1
    /\ epoch' = epoch + 1
    /\ pc' = "epoch"
    /\ UNCHANGED <<logits, pred, train_acc, val_acc, test_acc, best_val_acc,
                   best_test_acc, history>>
    /\ TrainingFrame

NextTrain == Forward \/ Evaluate \/ UpdateBest \/ OptimizerStep

SpecTrain == InitTrain /\ [][NextTrain]_vars

\* the largest validation accuracy of the first n epochs
MaxVal(n) ==
    CHOOSE m \in {history[k].val_acc : k \in 1..n} :
        \A k \in 1..n : ~RLess(m, history[k].val_acc)

\* the earliest of the first n epochs whose validation accuracy is MaxVal(n)
Earliest(n) ==
    CHOOSE k \in 1..n :
        /\ history[k].val_acc = MaxVal(n)
        /\ \A j \in 1..k - 1 : history[j].val_acc # MaxVal(n)

\* C13: after the `if` of every epoch, best_val_acc is the largest validation
\* accuracy of the epochs so far and is not below what it was an epoch
\* before; best_test_acc is the test accuracy of the earliest epoch that had
\* that largest validation accuracy, and differs from its value an epoch
\* before only if the epoch's val_acc exceeds the earlier best_val_acc; and
\* the accuracies of epoch e are those of the argmax of the logits made with
\* the parameters after e optimizer steps, before the epoch's own step.
C13_BestFollowsValidation ==
    mode = "train" =>
        /\ \A n \in DOMAIN history :
             /\ history[n].best_val_acc = MaxVal(n)
             /\ history[n].best_test_acc = history[Earliest(n)].test_acc
             /\ n > 1 =>
                  /\ ~RLess(history[n].best_val_acc, history[n - 1].best_val_acc)
                  /\ history[n].best_test_acc # history[n - 1].best_test_acc =>
                        RLess(history[n - 1].best_val_acc, history[n].val_acc)
             /\ history[n].epoch = n - 1
             /\ history[n].logits.params = n - 1
             /\ history[n].pred =
                  [k \in DOMAIN labels |-> ArgMax(history[n].logits.value[k])]
             /\ history[n].val_acc = Accuracy(history[n].pred, val_idx)
             /\ history[n].test_acc = Accuracy(history[n].pred, test_idx)
        /\ (pc \in {"opt", "epoch"} /\ history # <<>>) =>
             /\ best_val_acc = history[Len(history)].best_val_acc
             /\ best_test_acc = history[Len(history)].best_test_acc

====
